---- MODULE Spec2Model ----
(***************************************************************************)
(* Model of fmt_db2_output.py: a filter that finds fixed-width text tables *)
(* (header lines, a dash separator line, data lines) in a sequence of      *)
(* lines and re-renders them with reduced column widths.                   *)
(*                                                                         *)
(* A line is a sequence of one-character strings.  Indices of lines and of *)
(* characters are 0-based, as in the source; At(s, k) reads position k.    *)
(***************************************************************************)
EXTENDS Integers, Sequences, FiniteSets, TLC

\* ------------------------------------------------------------------ bounds

\* Largest number of input lines explored.
MaxLines == 4

\* The lines an input is built from.  For the separator "-- --" the columns
\* are (0,2) and (3,5) and the gap is (2,3); for "----" the only column is
\* (0,4) and there is no gap.  LineRight starts with a vertical tab and
\* BlankNbsp is one no-break space: both characters are whitespace for
\* str.strip() and neither is the space is_valid_header_line looks for.
BlankLine == << >>
Dash2     == << "-", "-", " ", "-", "-" >>
Dash1     == << "-", "-", "-", "-" >>
LineAbC   == << "a", "b", " ", " ", "c" >>
LineLeft  == << "a", " ", " ", "b", " " >>
LineGap   == << " ", " ", "a", " ", "b" >>
LineShort == << "a" >>
LineRight == << "U+000B", "a", " ", " ", "b" >>
BlankNbsp == << "U+00A0" >>

Pool ==
  { BlankLine, BlankNbsp, Dash2, Dash1, LineAbC, LineLeft, LineGap, LineShort, LineRight }

Inputs == UNION { [1..n -> Pool] : n \in 0..MaxLines }

\* ------------------------------------------------- Python string primitives

At(s, k) == s[k + 1]

Min(a, b) == IF a <= b THEN a ELSE b

Max(a, b) == IF a >= b THEN a ELSE b

\* The characters str.strip() removes: those for which str.isspace() holds.  A
\* character that has no escape is written as the token "U+" and its code point.
Whitespace ==
  { "\t", "\n", "U+000B", "\f", "\r", "U+001C", "U+001D", "U+001E", "U+001F", " ",
    "U+0085", "U+00A0", "U+1680", "U+2000", "U+2001", "U+2002", "U+2003", "U+2004",
    "U+2005", "U+2006", "U+2007", "U+2008", "U+2009", "U+200A", "U+2028", "U+2029",
    "U+202F", "U+205F", "U+3000" }

\* s[a:b] for 0 <= a
Slice(s, a, b) == SubSeq(s, a + 1, Min(b, Len(s)))

RECURSIVE lstrip(_)
lstrip(s) == IF s = << >> \/ Head(s) \notin Whitespace THEN s ELSE lstrip(Tail(s))

RECURSIVE rstrip(_)
rstrip(s) ==
  IF s = << >> \/ s[Len(s)] \notin Whitespace THEN s
  ELSE rstrip(SubSeq(s, 1, Len(s) - 1))

strip(s) == rstrip(lstrip(s))

\* c * n
Repeat(c, n) == [k \in 1..n |-> c]

ljust(s, w) == IF Len(s) >= w THEN s ELSE s \o Repeat(" ", w - Len(s))

rjust(s, w) == IF Len(s) >= w THEN s ELSE Repeat(" ", w - Len(s)) \o s

\* ' '.join(parts)
RECURSIVE join(_)
join(parts) ==
  IF parts = << >> THEN << >>
  ELSE IF Len(parts) = 1 THEN parts[1]
  ELSE parts[1] \o << " " >> \o join(Tail(parts))

\* max((len(t) for t in texts), default=0)
RECURSIVE MaxLen(_)
MaxLen(texts) ==
  IF texts = << >> THEN 0
  ELSE IF Len(texts) = 1 THEN Len(texts[1])
  ELSE Max(Len(texts[1]), MaxLen(Tail(texts)))

Reverse(s) == [k \in 1..Len(s) |-> s[Len(s) + 1 - k]]

\* ------------------------------------------------------- column geometry

\* The inner while of find_columns: the end of the dash run starting at i.
RECURSIVE RunEnd(_, _)
RunEnd(dash_line, i) ==
  IF i < Len(dash_line) /\ At(dash_line, i) = "-" THEN RunEnd(dash_line, i + 1) ELSE i

RECURSIVE FindColumnsFrom(_, _, _)
FindColumnsFrom(dash_line, i, columns) ==
  IF i >= Len(dash_line) THEN columns
  ELSE IF At(dash_line, i) = "-"
       THEN FindColumnsFrom(dash_line, RunEnd(dash_line, i),
                            Append(columns, << i, RunEnd(dash_line, i) >>))
       ELSE FindColumnsFrom(dash_line, i + 1, columns)

find_columns(dash_line) == FindColumnsFrom(dash_line, 0, << >>)

find_gaps(columns) ==
  [k \in 1..(Len(columns) - 1) |-> << columns[k][2], columns[k + 1][1] >>]

is_valid_header_line_nogaps(line, columns, gaps) == TRUE

is_valid_header_line(line, columns, gaps) ==
  \A g \in 1..Len(gaps) :
    \A pos \in gaps[g][1] .. (Min(gaps[g][2], Len(line)) - 1) :
      ~(pos < Len(line) /\ At(line, pos) # " ")

extract_value(line, start, end) ==
  IF start >= Len(line) THEN << >> ELSE Slice(line, start, Min(end, Len(line)))

\* re.match(r'^[\- ]+$', line): '$' matches at the end of the line and also
\* before a newline that ends it.
MatchesDashPattern(line) ==
  LET body == IF line # << >> /\ line[Len(line)] = "\n"
              THEN { SubSeq(line, 1, Len(line) - 1), line }
              ELSE { line }
  IN  \E b \in body : b # << >> /\ \A k \in 1..Len(b) : b[k] \in { "-", " " }

is_dash_line(line) ==
  /\ line # << >>
  /\ strip(line) # << >>
  /\ MatchesDashPattern(line)
  /\ \E k \in 1..Len(line) : line[k] = "-"

\* ------------------------------------------------------- justification

RECURSIVE detect_justification_swapped(_)
detect_justification_swapped(raw_values) ==
  IF raw_values = << >> THEN "left"
  ELSE LET val          == Head(raw_values)
           left_spaces  == Len(val) - Len(lstrip(val))
           right_spaces == Len(val) - Len(rstrip(val))
       IN  IF strip(val) = << >> THEN detect_justification_swapped(Tail(raw_values))
           ELSE IF left_spaces > 0 /\ right_spaces = 0 THEN "left"
           ELSE IF right_spaces > 0 /\ left_spaces = 0 THEN "right"
           ELSE IF left_spaces > right_spaces THEN "right"
           ELSE detect_justification_swapped(Tail(raw_values))

RECURSIVE detect_justification(_)
detect_justification(raw_values) ==
  IF raw_values = << >> THEN "left"
  ELSE LET val          == Head(raw_values)
           left_spaces  == Len(val) - Len(lstrip(val))
           right_spaces == Len(val) - Len(rstrip(val))
       IN  IF strip(val) = << >> THEN detect_justification(Tail(raw_values))
           ELSE IF left_spaces > 0 /\ right_spaces = 0 THEN "right"
           ELSE IF right_spaces > 0 /\ left_spaces = 0 THEN "left"
           ELSE IF left_spaces > right_spaces THEN "right"
           ELSE detect_justification(Tail(raw_values))

\* ------------------------------------------------------- header collection

\* The while loop of collect_header_lines: header_indices in the order the
\* upward walk appends them.
RECURSIVE CollectUp(_, _, _, _, _)
CollectUp(lines, idx, columns, gaps, header_indices) ==
  IF idx < 0 THEN header_indices
  ELSE IF strip(At(lines, idx)) = << >> THEN header_indices
  ELSE IF is_valid_header_line(At(lines, idx), columns, gaps)
       THEN CollectUp(lines, idx - 1, columns, gaps, Append(header_indices, idx))
       ELSE header_indices

collect_header_lines(lines, dash_line_idx, columns) ==
  Reverse(CollectUp(lines, dash_line_idx - 1, columns, find_gaps(columns), << >>))

\* header_texts[col_idx][line_idx], both counted from 1 here.
extract_multiline_headers(lines, header_indices, columns) ==
  [c \in 1..Len(columns) |->
     [h \in 1..Len(header_indices) |->
        strip(extract_value(At(lines, header_indices[h]), columns[c][1], columns[c][2]))]]

\* ------------------------------------------------------- data collection

\* The loop of main that collects data lines: the index j it stops at.
RECURSIVE DataEndFrom(_, _)
DataEndFrom(lines, j) ==
  IF j >= Len(lines) THEN j
  ELSE IF strip(At(lines, j)) = << >> THEN j
  ELSE IF is_dash_line(At(lines, j)) THEN j
  ELSE DataEndFrom(lines, j + 1)

RECURSIVE DataEndThroughDashes(_, _)
DataEndThroughDashes(lines, j) ==
  IF j >= Len(lines) THEN j
  ELSE IF strip(At(lines, j)) = << >> THEN j
  ELSE DataEndThroughDashes(lines, j + 1)

collect_data_end_through_dashes(lines, dash_line_idx) ==
  DataEndThroughDashes(lines, dash_line_idx + 1)

collect_data_end_no_advance(lines, dash_line_idx) == DataEndFrom(lines, dash_line_idx)

collect_data_end(lines, dash_line_idx) == DataEndFrom(lines, dash_line_idx + 1)

\* data_lines, given the index j the collection stopped at
DataLines(lines, dash_line_idx, j) == SubSeq(lines, dash_line_idx + 2, j)

\* ------------------------------------------------------- table formatter

\* raw_values[row][col]
RawValues(data_lines, columns) ==
  [r \in 1..Len(data_lines) |->
     [c \in 1..Len(columns) |-> extract_value(data_lines[r], columns[c][1], columns[c][2])]]

StrippedValues(raw_values) ==
  [r \in 1..Len(raw_values) |-> [c \in 1..Len(raw_values[r]) |-> strip(raw_values[r][c])]]

Justifications(raw_values, num_cols) ==
  [c \in 1..num_cols |->
     detect_justification([r \in 1..Len(raw_values) |-> raw_values[r][c]])]

new_widths_header_only(header_texts, stripped_values) ==
  [c \in 1..Len(header_texts) |-> MaxLen(header_texts[c])]

new_widths(header_texts, stripped_values) ==
  [c \in 1..Len(header_texts) |->
     Max(MaxLen(header_texts[c]),
         MaxLen([r \in 1..Len(stripped_values) |-> stripped_values[r][c]]))]

process_table(lines, header_indices, dash_line_idx, data_lines, columns) ==
  LET header_texts    == extract_multiline_headers(lines, header_indices, columns)
      raw_values      == RawValues(data_lines, columns)
      stripped_values == StrippedValues(raw_values)
      justifications  == Justifications(raw_values, Len(columns))
      widths          == new_widths(header_texts, stripped_values)
      header_out ==
        [h \in 1..Len(header_indices) |->
           rstrip(join([c \in 1..Len(columns) |-> ljust(header_texts[c][h], widths[c])]))]
      dash_out == join([c \in 1..Len(columns) |-> Repeat("-", widths[c])])
      data_out ==
        [r \in 1..Len(stripped_values) |->
           rstrip(join([c \in 1..Len(columns) |->
                          IF justifications[c] = "right"
                          THEN rjust(stripped_values[r][c], widths[c])
                          ELSE ljust(stripped_values[r][c], widths[c])]))]
  IN  header_out \o << dash_out >> \o data_out

\* The else branch of main: a table with header lines and no data lines.
header_only_table(lines, header_indices, columns) ==
  LET header_texts == extract_multiline_headers(lines, header_indices, columns)
      widths       == [c \in 1..Len(header_texts) |-> MaxLen(header_texts[c])]
      header_out ==
        [h \in 1..Len(header_indices) |->
           rstrip(join([c \in 1..Len(columns) |-> ljust(header_texts[c][h], widths[c])]))]
  IN  header_out \o << join([c \in 1..Len(widths) |-> Repeat("-", widths[c])]) >>

\* ------------------------------------------------------- normalizer

\* The token standing for the one character U+FEFF.
BOM == "U+FEFF"

\* content.replace('\r\n', '\n').replace('\r', '\n')
RECURSIVE ReplaceCR(_)
ReplaceCR(content) ==
  IF content = << >> THEN << >>
  ELSE IF Head(content) = "\r"
       THEN IF Len(content) >= 2 /\ content[2] = "\n"
            THEN << "\n" >> \o ReplaceCR(Tail(Tail(content)))
            ELSE << "\n" >> \o ReplaceCR(Tail(content))
       ELSE << Head(content) >> \o ReplaceCR(Tail(content))

\* content.split('\n'): cur is the element being read, done the elements read.
RECURSIVE SplitLines(_, _, _)
SplitLines(content, cur, done) ==
  IF content = << >> THEN Append(done, cur)
  ELSE IF Head(content) = "\n" THEN SplitLines(Tail(content), << >>, Append(done, cur))
  ELSE SplitLines(Tail(content), Append(cur, Head(content)), done)

\* Lines 200-209 of main: from the text read to the list of lines.
ReadLines(content) ==
  LET no_bom == IF content # << >> /\ Head(content) = BOM THEN Tail(content) ELSE content
      split  == SplitLines(ReplaceCR(no_bom), << >>, << >>)
  IN  IF split # << >> /\ split[Len(split)] = << >>
      THEN SubSeq(split, 1, Len(split) - 1)
      ELSE split

\* What print() writes for a sequence of lines.
RECURSIVE Printed(_)
Printed(out) ==
  IF out = << >> THEN << >> ELSE Head(out) \o << "\n" >> \o Printed(Tail(out))

\* ------------------------------------------------------- main

Range(s) == { s[k] : k \in 1..Len(s) }

\* output_map[key] = value
MapPut(map, key, value) ==
  [k \in (DOMAIN map) \cup { key } |-> IF k = key THEN value ELSE map[k]]

\* The final loop of main over range(len(lines)), from index k on.
RECURSIVE FinalPassFrom(_, _, _, _)
FinalPassFrom(L, k, cons, omap) ==
  IF k >= Len(L) THEN << >>
  ELSE (IF k \in DOMAIN omap THEN omap[k]
        ELSE IF k \notin cons THEN << At(L, k) >>
        ELSE << >>) \o FinalPassFrom(L, k + 1, cons, omap)

final_pass(L, cons, omap) == FinalPassFrom(L, 0, cons, omap)

\* Which branch the body of the scan loop takes at index k.
Branch(L, k) ==
  IF ~is_dash_line(At(L, k)) THEN "line"
  ELSE IF collect_header_lines(L, k, find_columns(At(L, k))) = << >> THEN "headerless"
  ELSE IF DataLines(L, k, collect_data_end(L, k)) # << >> THEN "table"
  ELSE "header_only"

\* One iteration of the while loop of main on the state s =
\* [i, consumed, output_map, stdout, detected].  detected is the record of every
\* separator line the scan has handled, in scan order.
MainIter(L, s) ==
  LET dash_line_idx  == s.i
      dash_line      == At(L, s.i)
      columns        == find_columns(dash_line)
      header_indices == collect_header_lines(L, dash_line_idx, columns)
      j              == collect_data_end(L, dash_line_idx)
      data_lines     == DataLines(L, dash_line_idx, j)
      formatted      == IF data_lines # << >>
                        THEN process_table(L, header_indices, dash_line_idx, data_lines, columns)
                        ELSE header_only_table(L, header_indices, columns)
  IN  IF ~is_dash_line(At(L, s.i)) THEN [s EXCEPT !.i = s.i + 1]
      ELSE IF header_indices = << >>
      THEN [s EXCEPT !.stdout = Append(s.stdout, At(L, s.i)),
                     !.i = s.i + 1,
                     !.detected = Append(s.detected,
                        [dash_line_idx |-> dash_line_idx, columns |-> columns,
                         header_indices |-> << >>, j |-> -1, formatted |-> << >>])]
      ELSE [s EXCEPT !.consumed = s.consumed \cup Range(header_indices)
                                    \cup { dash_line_idx }
                                    \cup { k \in (dash_line_idx + 1)..(j - 1) : data_lines # << >> },
                     !.output_map = MapPut(s.output_map, header_indices[1], formatted),
                     !.i = j,
                     !.detected = Append(s.detected,
                        [dash_line_idx |-> dash_line_idx, columns |-> columns,
                         header_indices |-> header_indices, j |-> j,
                         formatted |-> formatted])]

StartState ==
  [i |-> 0, consumed |-> {}, output_map |-> << >>, stdout |-> << >>, detected |-> << >>]

\* The whole of main after the lines are read: what it prints.
RECURSIVE RunMain(_, _)
RunMain(L, s) ==
  IF s.i < Len(L) THEN RunMain(L, MainIter(L, s))
  ELSE s.stdout \o final_pass(L, s.consumed, s.output_map)

main(L) == RunMain(L, StartState)

\* ------------------------------------------------------- the state machine

VARIABLES lines, i, consumed, output_map, stdout, detected, pc

vars == << lines, i, consumed, output_map, stdout, detected, pc >>

Cur ==
  [i |-> i, consumed |-> consumed, output_map |-> output_map, stdout |-> stdout,
   detected |-> detected]

Init ==
  /\ lines = << >>
  /\ i = 0
  /\ consumed = {}
  /\ output_map = << >>
  /\ stdout = << >>
  /\ detected = << >>
  /\ pc = "read"

\* main reads its input and splits it into lines
ReadInput ==
  /\ pc = "read"
  /\ \E content \in { Printed(L) : L \in Inputs } : lines' = ReadLines(content)
  /\ pc' = "scan"
  /\ UNCHANGED << i, consumed, output_map, stdout, detected >>

Iterate ==
  LET n == MainIter(lines, Cur)
  IN  /\ i' = n.i
      /\ consumed' = n.consumed
      /\ output_map' = n.output_map
      /\ stdout' = n.stdout
      /\ detected' = n.detected
      /\ UNCHANGED << lines, pc >>

\* lines[i] is not a separator line: i += 1
PassLine ==
  /\ pc = "scan" /\ i < Len(lines)
  /\ Branch(lines, i) = "line"
  /\ Iterate

\* a separator line with no header line above it: print it, i += 1
HeaderlessSeparator ==
  /\ pc = "scan" /\ i < Len(lines)
  /\ Branch(lines, i) = "headerless"
  /\ Iterate

\* a separator line with header lines and data lines
TableWithData ==
  /\ pc = "scan" /\ i < Len(lines)
  /\ Branch(lines, i) = "table"
  /\ Iterate

\* a separator line with header lines and no data lines
HeaderOnlyTable ==
  /\ pc = "scan" /\ i < Len(lines)
  /\ Branch(lines, i) = "header_only"
  /\ Iterate

\* the scan loop has ended: the final loop prints the lines and the blocks
FinalPass ==
  /\ pc = "scan" /\ ~(i < Len(lines))
  /\ stdout' = stdout \o final_pass(lines, consumed, output_map)
  /\ pc' = "done"
  /\ UNCHANGED << lines, i, consumed, output_map, detected >>

Next ==
  \/ ReadInput
  \/ PassLine
  \/ HeaderlessSeparator
  \/ TableWithData
  \/ HeaderOnlyTable
  \/ FinalPass

Spec == Init /\ [][Next]_vars

\* ------------------------------------------------------- reading the run

\* The separator lines handled so far that introduced a table.
Tables == { k \in 1..Len(detected) : detected[k].header_indices # << >> }

\* The input lines a detected table is made of: header, separator and data.
Block(t) ==
  Range(t.header_indices) \cup { t.dash_line_idx } \cup (t.dash_line_idx + 1)..(t.j - 1)

TableLines == UNION { Block(detected[k]) : k \in Tables }

Blank(line) == \A k \in 1..Len(line) : line[k] \in Whitespace

Separator(line) ==
  /\ \A k \in 1..Len(line) : line[k] \in { "-", " " }
  /\ \E k \in 1..Len(line) : line[k] = "-"

SetMax(S) == IF S = {} THEN 0 ELSE CHOOSE m \in S : \A x \in S : x <= m

SetMin(S) == CHOOSE m \in S : \A x \in S : m <= x

\* The trimmed text of line k of the input in the column span col.
Cell(k, col) == strip(extract_value(At(lines, k), col[1], col[2]))

\* The width claimed for column c of table t: the longest trimmed header or
\* data cell.
CellWidth(t, c) ==
  SetMax({ Len(Cell(k, t.columns[c])) : k \in Block(t) \ { t.dash_line_idx } })

\* Where column c starts in a rendered line, the columns being one space apart.
RECURSIVE RenderedStart(_, _)
RenderedStart(t, c) ==
  IF c = 1 THEN 0 ELSE RenderedStart(t, c - 1) + CellWidth(t, c - 1) + 1

RenderedLength(t) == RenderedStart(t, Len(t.columns)) + CellWidth(t, Len(t.columns))

\* The part of a rendered line that belongs to column c, the trailing spaces
\* the renderer trimmed put back.
RenderedCell(t, row, c) ==
  Slice(ljust(row, RenderedLength(t)), RenderedStart(t, c),
        RenderedStart(t, c) + CellWidth(t, c))

\* The rendered lines of table t: its header lines, its separator line and
\* its data lines.
RenderedSeparator(t) == t.formatted[Len(t.header_indices) + 1]

RenderedData(t, r) == t.formatted[Len(t.header_indices) + 1 + r]

DataRows(t) == 1..(t.j - t.dash_line_idx - 1)

\* ------------------------------------------------------- claims

\* What the output is when every line outside the detected tables is emitted
\* once, in place, and every table line is replaced by the block stored at it
\* (if any): the merge from input index k on.
RECURSIVE MergedFrom(_)
MergedFrom(k) ==
  IF k >= Len(lines) THEN << >>
  ELSE (IF k \notin TableLines THEN << At(lines, k) >>
        ELSE IF k \in DOMAIN output_map THEN output_map[k]
        ELSE << >>) \o MergedFrom(k + 1)

\* C1: when the filter has finished, every line that is not the header,
\* separator or data line of a detected table (a separator line with no header
\* line included) is in the output unchanged, exactly once, and in input order
\* relative to the other emitted lines and the table blocks.
C1_PassThroughOnceInOrder == pc = "done" => stdout = MergedFrom(0)

\* C2: the filter is idempotent: run on what it printed, it prints the same
\* lines again.
C2_Idempotent == pc = "done" => main(ReadLines(Printed(stdout))) = stdout

\* C3: tables never overlap: no input line belongs to the header, separator or
\* data block of two detected tables.
C3_TablesDisjoint ==
  \A a, b \in Tables : a # b => Block(detected[a]) \cap Block(detected[b]) = {}

\* C4: when the filter has finished, the block rendered for every detected
\* table is the one emitted at the table's first header line: it is neither
\* lost nor replaced by the block of another table.
C4_EveryBlockEmitted ==
  pc = "done" =>
    \A k \in Tables :
      /\ detected[k].header_indices[1] \in DOMAIN output_map
      /\ output_map[detected[k].header_indices[1]] = detected[k].formatted

\* C5: in every rendered table block the separator line is one run of '-' per
\* column, of the column's width, the runs joined by one space, and no rendered
\* line (header, separator or data) ends in whitespace.
C5_JoinedAndTrimmed ==
  \A k \in Tables :
    LET t == detected[k]
    IN  /\ RenderedSeparator(t) =
             join([c \in 1..Len(t.columns) |-> Repeat("-", CellWidth(t, c))])
        /\ \A r \in 1..Len(t.formatted) :
             t.formatted[r] = << >> \/ t.formatted[r][Len(t.formatted[r])] \notin Whitespace

\* C6: the rendered width of every column of every detected table is the
\* length of its longest trimmed header or data cell (of its longest trimmed
\* header cell when the table has no data lines): the separator line is made
\* of runs of that length, and every trimmed header and data cell is found
\* whole in the rendered column of that width.
C6_WidthIsLongestCell ==
  \A k \in Tables :
    LET t == detected[k]
    IN  /\ RenderedSeparator(t) =
             join([c \in 1..Len(t.columns) |-> Repeat("-", CellWidth(t, c))])
        /\ \A c \in 1..Len(t.columns) :
             /\ \A n \in 1..Len(t.header_indices) :
                  strip(RenderedCell(t, t.formatted[n], c)) =
                    Cell(t.header_indices[n], t.columns[c])
             /\ \A r \in DataRows(t) :
                  strip(RenderedCell(t, RenderedData(t, r), c)) =
                    Cell(t.dash_line_idx + r, t.columns[c])

\* A table with data lines has a column whose data cells are longer than all
\* of its header cells.
C6_Witness ==
  \E k \in Tables :
    LET t == detected[k]
    IN  /\ DataRows(t) # {}
        /\ \E c \in 1..Len(t.columns) :
             \A h \in Range(t.header_indices) :
               Len(Cell(h, t.columns[c])) < CellWidth(t, c)

\* The untrimmed text of line k of the input in the column span col.
RawCell(k, col) == extract_value(At(lines, k), col[1], col[2])

LeadingSpaces(val) ==
  SetMax({ n \in 0..Len(val) : \A m \in 1..n : val[m] \in Whitespace })

TrailingSpaces(val) ==
  SetMax({ n \in 0..Len(val) : \A m \in (Len(val) - n + 1)..Len(val) : val[m] \in Whitespace })

\* What one data cell says about the justification of its column.
Signal(val) ==
  IF Blank(val) THEN "none"
  ELSE IF LeadingSpaces(val) > 0 /\ TrailingSpaces(val) = 0 THEN "right"
  ELSE IF TrailingSpaces(val) > 0 /\ LeadingSpaces(val) = 0 THEN "left"
  ELSE IF LeadingSpaces(val) > TrailingSpaces(val) THEN "right"
  ELSE "none"

\* The signal of the first data row of table t that gives one for column c.
FirstSignal(t, c) ==
  LET S == { r \in DataRows(t) : Signal(RawCell(t.dash_line_idx + r, t.columns[c])) # "none" }
  IN  IF S = {} THEN "left"
      ELSE Signal(RawCell(t.dash_line_idx + SetMin(S), t.columns[c]))

\* C7: every data cell of a column is rendered right-justified when the first
\* data cell of the column that gives a signal says right, and left-justified
\* otherwise (also when no cell gives a signal); so a column whose data cells
\* all have trailing and no leading padding is padded on the right, and one
\* whose data cells all have leading and no trailing padding on the left.
C7_FirstSignalDecides ==
  \A k \in Tables :
    LET t == detected[k]
    IN  \A c \in 1..Len(t.columns) :
          LET w       == CellWidth(t, c)
              raw(r)  == RawCell(t.dash_line_idx + r, t.columns[c])
              text(r) == Cell(t.dash_line_idx + r, t.columns[c])
              out(r)  == RenderedCell(t, RenderedData(t, r), c)
          IN  /\ \A r \in DataRows(t) :
                   out(r) = IF FirstSignal(t, c) = "right"
                            THEN rjust(text(r), w) ELSE ljust(text(r), w)
              /\ (\A r \in DataRows(t) : TrailingSpaces(raw(r)) > 0 /\ LeadingSpaces(raw(r)) = 0)
                   => \A r \in DataRows(t) : out(r) = text(r) \o Repeat(" ", w - Len(text(r)))
              /\ (\A r \in DataRows(t) : LeadingSpaces(raw(r)) > 0 /\ TrailingSpaces(raw(r)) = 0)
                   => \A r \in DataRows(t) : out(r) = Repeat(" ", w - Len(text(r))) \o text(r)

\* A column whose first data row says right and whose second says left, the
\* first cell being shorter than the column is wide.
C7_Witness ==
  \E k \in Tables :
    LET t == detected[k]
    IN  \E c \in 1..Len(t.columns) :
          /\ 2 \in DataRows(t)
          /\ Signal(RawCell(t.dash_line_idx + 1, t.columns[c])) = "right"
          /\ Signal(RawCell(t.dash_line_idx + 2, t.columns[c])) = "left"
          /\ Len(Cell(t.dash_line_idx + 1, t.columns[c])) < CellWidth(t, c)

\* The character positions between two adjacent columns.
GapPositions(columns) ==
  UNION { columns[c][2]..(columns[c + 1][1] - 1) : c \in 1..(Len(columns) - 1) }

\* Line k is not blank and has a space at every gap position it reaches.
HeaderLike(k, columns) ==
  /\ ~Blank(At(lines, k))
  /\ \A p \in GapPositions(columns) : p < Len(At(lines, k)) => At(At(lines, k), p) = " "

\* The lines directly above the separator line at index d that form an
\* unbroken run of header-like lines reaching down to d - 1.
HeaderRun(d, columns) ==
  { k \in 0..(d - 1) : \A m \in k..(d - 1) : HeaderLike(m, columns) }

\* C8: the header block collected for a separator line at index d is the
\* maximal run of lines d-1, d-2, ... that are not blank and have only spaces
\* in the gaps between the columns (as far as the line reaches), and its
\* indices are in increasing order.
C8_HeaderBlockIsMaximalRun ==
  \A k \in 1..Len(detected) :
    LET t == detected[k]
        n == Cardinality(HeaderRun(t.dash_line_idx, t.columns))
    IN  /\ Len(t.header_indices) = n
        /\ \A m \in 1..n : t.header_indices[m] = t.dash_line_idx - n + m - 1

\* A header block of two lines or more that stops below a line that is not
\* blank and has a character other than a space in a gap.
C8_Witness ==
  \E k \in 1..Len(detected) :
    LET t == detected[k]
    IN  /\ Len(t.header_indices) >= 2
        /\ t.header_indices[1] > 0
        /\ ~Blank(At(lines, t.header_indices[1] - 1))
        /\ ~HeaderLike(t.header_indices[1] - 1, t.columns)

\* The separator line at index d has a header line above it.
IntroducesTable(d) ==
  /\ Separator(At(lines, d))
  /\ d > 0
  /\ HeaderLike(d - 1, find_columns(At(lines, d)))

\* The first index after d that is the end of the input, a blank line or a
\* separator line.
DataRunEnd(d) ==
  SetMin({ e \in (d + 1)..Len(lines) :
             e = Len(lines) \/ Blank(At(lines, e)) \/ Separator(At(lines, e)) })

\* One iteration of the scan moves the scan index forward: by one on a line
\* that is no separator line or on a separator line without header lines, past
\* the separator line after a table; and when the scan index has reached the
\* end of the input the final pass runs.
ScanAdvances ==
  /\ (pc = "scan" /\ i < Len(lines)) =>
       /\ pc' = "scan"
       /\ i' > i
       /\ i' <= Len(lines)
       /\ ~IntroducesTable(i) => i' = i + 1
  /\ (pc = "scan" /\ i >= Len(lines)) =>
       /\ pc' = "done"
       /\ stdout' = stdout \o final_pass(lines, consumed, output_map)

\* C9: the filter runs to completion on every input: every iteration of the
\* scan loop moves the scan index strictly forward and never past the end of
\* the input, so the scan reaches the end of the input, and there the final
\* pass is executed.
C9_RunsToCompletion == [][ScanAdvances]_vars

\* A finished run that handled a separator line without header lines and a
\* table with data lines.
C9_Witness ==
  /\ pc = "done"
  /\ \E k \in 1..Len(detected) : detected[k].header_indices = << >>
  /\ \E k \in Tables : detected[k].j > detected[k].dash_line_idx + 1

\* The iteration on a separator line at index i that has a header line takes
\* the lines up to the first blank line, separator line or end of input as the
\* data block, renders one line for each, consumes them when there are any, and
\* leaves the scan index at the line that ended the block.
DataBlockTaken ==
  (pc = "scan" /\ i < Len(lines) /\ IntroducesTable(i)) =>
    LET e == DataRunEnd(i)
        t == detected'[Len(detected')]
    IN  /\ i' = e
        /\ t.dash_line_idx = i
        /\ Len(t.formatted) = Len(t.header_indices) + 1 + (e - i - 1)
        /\ \A r \in 1..(e - i - 1) :
             \A c \in 1..Len(t.columns) :
               strip(RenderedCell(t, RenderedData(t, r), c)) = strip(RawCell(i + r, t.columns[c]))
        /\ (i + 1)..(e - 1) \subseteq consumed'

\* C10: the data block of a separator line that has a header line is the
\* maximal run of lines below it that are neither blank nor separator lines,
\* and the scan resumes at the first index after that run, so a separator line
\* that ended the block is the next line scanned.
C10_DataBlockIsMaximalRun == [][DataBlockTaken]_vars

\* A table whose data block was ended by a separator line, which the scan
\* handled next.
C10_Witness ==
  \E k \in Tables :
    /\ detected[k].j > detected[k].dash_line_idx + 1
    /\ k < Len(detected)
    /\ detected[k + 1].dash_line_idx = detected[k].j

====
